---- MODULE Spec2Model ----
(***************************************************************************)
(* A model of the page audit of src/main.py: run_audit creates one         *)
(* process_row task per input row on a single asyncio event loop, the      *)
(* tasks share an asyncio.Semaphore and the link status cache, and         *)
(* asyncio.gather collects their issue lists in input order.               *)
(*                                                                         *)
(* A step of the model is what one task does between two awaits: the event *)
(* loop runs a task without interruption until it suspends in client.get   *)
(* or on the semaphore, returns, or raises.                                *)
(*                                                                         *)
(* Text is modelled by TLA+ strings; Len, \o and SubSeq act on them as on  *)
(* sequences of characters.                                                *)
(***************************************************************************)
EXTENDS Integers, Sequences, FiniteSets, TLC

(***************************************************************************)
(* The state of a run.                                                     *)
(***************************************************************************)
VARIABLES
    source_rows,   \* run_audit: the rows to audit, in input order
    concurrency,   \* args.concurrency
    semaphore,     \* the free slots of the asyncio.Semaphore
    link_cache,    \* link_cache: absolute URL -> status, or StatusNone
    pc,            \* per task: where process_row stands
    issues_of,     \* per task: process_row's issues list
    root_of,       \* per task: the container of the fetched page, or NoHtml
    links_of,      \* per task: the links extract_page_links gave
    pos_of,        \* per task: the position of the link detect_broken_links awaits
    seen_of,       \* per task: detect_broken_links' seen set
    run,           \* run_audit: "gathering", "done" or "failed"
    report,        \* the issues given to write_results
    page_status,   \* history, per task: fetch_page's page_status, or None
    extracted,     \* history, per task: extract_page_links was called
    page_gets,     \* history, per task: the GETs fetch_page issued
    outcome_of,    \* history, per task: what the page's GET gave, or NoOutcome
    link_gets,     \* history: absolute URL -> the GETs fetch_link_status issued
    observed,      \* history: the (url, status) pairs fetch_link_status returned
    observed_by,   \* history, per task: the pairs it returned to that task
    finished,      \* history: the tasks that returned or raised, in that order
    call,          \* a function called on its own: name and arguments
    result,        \* what that call returned, or Pending
    manifest,      \* collect_media: pdf_url -> the entry of the manifest
    clock          \* collect_media: the time utc_now() last gave

(***************************************************************************)
(* Python values.                                                          *)
(***************************************************************************)
\* Python's None (a missing description, a failed link check, no html).
None == "<None>"

\* The outcome "the call raised an exception that is not httpx.HTTPError".
Raised == "<raised>"

(***************************************************************************)
(* str methods used by the source.                                         *)
(***************************************************************************)
Char(s, i) == SubSeq(s, i, i)

\* The characters str.split() and str.strip() treat as whitespace.
IsSpace(c) == c \in {" ", "\t", "\n"}

startswith(s, p) == Len(s) >= Len(p) /\ SubSeq(s, 1, Len(p)) = p

endswith(s, p) == Len(s) >= Len(p) /\ SubSeq(s, Len(s) - Len(p) + 1, Len(s)) = p

RECURSIVE rstrip(_)
rstrip(s) ==
    IF Len(s) > 0 /\ IsSpace(Char(s, Len(s)))
    THEN rstrip(SubSeq(s, 1, Len(s) - 1))
    ELSE s

RECURSIVE lstrip(_)
lstrip(s) ==
    IF Len(s) > 0 /\ IsSpace(Char(s, 1))
    THEN lstrip(SubSeq(s, 2, Len(s)))
    ELSE s

strip(s) == lstrip(rstrip(s))

UpperChars == "ABCDEFGHIJKLMNOPQRSTUVWXYZ"

LowerChars == "abcdefghijklmnopqrstuvwxyz"

\* The position of the one-character string c in s from position i on, or 0.
RECURSIVE IndexFrom(_, _, _)
IndexFrom(s, c, i) ==
    IF i + Len(c) - 1 > Len(s) THEN 0
    ELSE IF SubSeq(s, i, i + Len(c) - 1) = c THEN i
    ELSE IndexFrom(s, c, i + 1)

Index(s, c) == IndexFrom(s, c, 1)

\* str.lower() of the upper-case letters.
LowerOf ==
    [c \in {Char(UpperChars, k) : k \in 1..Len(UpperChars)} |->
        Char(LowerChars, Index(UpperChars, c))]

LowerChar(c) == IF c \in DOMAIN LowerOf THEN LowerOf[c] ELSE c

RECURSIVE lower(_)
lower(s) ==
    IF Len(s) = 0 THEN s
    ELSE LowerChar(Char(s, 1)) \o lower(SubSeq(s, 2, Len(s)))

\* text with every run of whitespace replaced by one space; the text is
\* halved rather than walked, and a run across the cut is joined.
RECURSIVE Squeeze(_)
Squeeze(s) ==
    IF Len(s) = 0 THEN ""
    ELSE IF Len(s) = 1 THEN (IF IsSpace(s) THEN " " ELSE s)
    ELSE
    LET half == Len(s) \div 2
        left == Squeeze(SubSeq(s, 1, half))
        right == Squeeze(SubSeq(s, half + 1, Len(s)))
    IN  IF endswith(left, " ") /\ startswith(right, " ")
        THEN left \o SubSeq(right, 2, Len(right))
        ELSE left \o right

\* " ".join(text.split()): runs of whitespace become one space, none at the ends.
collapse_whitespace(text) == strip(Squeeze(text))

(***************************************************************************)
(* Snippets.                                                               *)
(***************************************************************************)
\* The default of trim_snippet's limit parameter; no caller passes another.
SNIPPET_LIMIT == 200

\* A trim_snippet that cuts at limit and leaves no room for the ellipsis.
trim_snippet_at_limit(text) ==
    IF Len(text) <= SNIPPET_LIMIT
    THEN text
    ELSE rstrip(SubSeq(text, 1, SNIPPET_LIMIT)) \o "..."

trim_snippet(text) ==
    IF Len(text) <= SNIPPET_LIMIT
    THEN text
    ELSE rstrip(SubSeq(text, 1, SNIPPET_LIMIT - 3)) \o "..."

(***************************************************************************)
(* urllib.parse, as far as resolve_href uses it.  The hrefs of the model   *)
(* hold no "." or ".." path segment, no ";" parameters and no control      *)
(* characters, so urljoin's dot-segment removal and urlparse's parameter   *)
(* split have nothing to do.                                               *)
(***************************************************************************)
SchemeChars == "abcdefghijklmnopqrstuvwxyzABCDEFGHIJKLMNOPQRSTUVWXYZ0123456789+-."

Letters == "abcdefghijklmnopqrstuvwxyzABCDEFGHIJKLMNOPQRSTUVWXYZ"

RECURSIVE AllSchemeChars(_)
AllSchemeChars(s) ==
    \/ Len(s) = 0
    \/ /\ Index(SchemeChars, Char(s, 1)) # 0
       /\ AllSchemeChars(SubSeq(s, 2, Len(s)))

\* The least position from i on of one of "/", "?", "#", or Len(s) + 1.
RECURSIVE NetlocEnd(_, _)
NetlocEnd(s, i) ==
    IF i > Len(s) THEN Len(s) + 1
    ELSE IF Char(s, i) \in {"/", "?", "#"} THEN i
    ELSE NetlocEnd(s, i + 1)

\* urlsplit's check of the netloc: "Invalid IPv6 URL" is a ValueError.
BadBrackets(netloc) ==
    \/ Index(netloc, "[") # 0 /\ Index(netloc, "]") = 0
    \/ Index(netloc, "]") # 0 /\ Index(netloc, "[") = 0

\* urlparse raising ValueError.
ParseRaised == [raised |-> TRUE]

\* s.partition(c): head is the text before the first c (all of s when there
\* is none), tail the text after it; at is the position of c, or 0.
SplitAt(s, at) ==
    IF at = 0 THEN [head |-> s, tail |-> ""]
    ELSE [head |-> SubSeq(s, 1, at - 1), tail |-> SubSeq(s, at + 1, Len(s))]

Partition(s, c) == SplitAt(s, Index(s, c))

\* urlsplit's scheme: the text before the first ":" (at colon) when it is a
\* letter followed by scheme characters, else the default.
SplitScheme(url, default, colon) ==
    IF /\ colon > 1
       /\ Index(Letters, Char(url, 1)) # 0
       /\ AllSchemeChars(SubSeq(url, 1, colon - 1))
    THEN [scheme |-> lower(SubSeq(url, 1, colon - 1)),
          rest |-> SubSeq(url, colon + 1, Len(url))]
    ELSE [scheme |-> default, rest |-> url]

\* urlsplit's netloc: after a leading "//", the text up to nend.
SplitNetloc(rest, nend) ==
    IF startswith(rest, "//")
    THEN [netloc |-> SubSeq(rest, 3, nend - 1), rest |-> SubSeq(rest, nend, Len(rest))]
    ELSE [netloc |-> "", rest |-> rest]

\* The parts once the fragment (f.tail) and the query (q.tail) are split off.
ParseParts(scheme, netloc, f, q) ==
    IF BadBrackets(netloc)
    THEN ParseRaised
    ELSE [raised |-> FALSE, scheme |-> scheme, netloc |-> netloc,
          path |-> q.head, query |-> q.tail, fragment |-> f.tail]

ParseQuery(scheme, netloc, f) ==
    ParseParts(scheme, netloc, f, Partition(f.head, "?"))

ParseFragment(scheme, nl) ==
    ParseQuery(scheme, nl.netloc, Partition(nl.rest, "#"))

ParseNetloc(s) ==
    ParseFragment(s.scheme, SplitNetloc(s.rest, NetlocEnd(s.rest, 3)))

\* urlparse(url, scheme=default): a record of the parts, or ParseRaised.
urlparse_default(url, default) ==
    ParseNetloc(SplitScheme(url, default, Index(url, ":")))

urlparse(url) == urlparse_default(url, "")

urlunparse(scheme, netloc, path, query, fragment) ==
    (IF scheme = "" THEN "" ELSE scheme \o ":")
    \o (IF netloc = "" THEN "" ELSE "//" \o netloc)
    \o path
    \o (IF query = "" THEN "" ELSE "?" \o query)
    \o (IF fragment = "" THEN "" ELSE "#" \o fragment)

\* The last position of "/" in s up to position i, or 0.
RECURSIVE LastSlash(_, _)
LastSlash(s, i) ==
    IF i = 0 THEN 0
    ELSE IF Char(s, i) = "/" THEN i
    ELSE LastSlash(s, i - 1)

\* urljoin's path: an absolute path stays, an empty one is the base's, a
\* relative one replaces the last segment of the base's.
JoinPath(bpath, path) ==
    IF path = "" THEN bpath
    ELSE IF startswith(path, "/") THEN path
    ELSE SubSeq(bpath, 1, LastSlash(bpath, Len(bpath))) \o path

\* urljoin once both URLs are parsed (b the base, u the reference).
JoinParsed(url, b, u) ==
    IF u.raised THEN Raised
    ELSE IF u.scheme # b.scheme \/ u.scheme \notin {"http", "https"} THEN url
    ELSE IF u.netloc # ""
    THEN urlunparse(u.scheme, u.netloc, u.path, u.query, u.fragment)
    ELSE urlunparse(u.scheme, b.netloc, JoinPath(b.path, u.path),
                    IF u.path = "" /\ u.query = "" THEN b.query ELSE u.query,
                    u.fragment)

JoinBase(url, b) ==
    IF b.raised THEN Raised
    ELSE JoinParsed(url, b, urlparse_default(url, b.scheme))

\* urljoin(base, url) for an http(s) base: the joined URL, or Raised.
urljoin(base, url) ==
    IF url = "" THEN base ELSE JoinBase(url, urlparse(base))

Defrag(p) ==
    IF p.raised THEN Raised
    ELSE urlunparse(p.scheme, p.netloc, p.path, p.query, "")

\* A resolve_href that forgets to drop the fragment.
urldefrag_keeps(url) == url

\* urldefrag(url)[0]: the URL without its fragment, or Raised.
urldefrag(url) ==
    IF Index(url, "#") = 0 THEN url ELSE Defrag(urlparse(url))

(***************************************************************************)
(* The link resolver.                                                      *)
(***************************************************************************)
EXCLUDED_HREF_PREFIXES == <<"mailto:", "tel:", "javascript:", "data:", "#">>

\* The results of resolve_href other than a triple: None, and ValueError raised
\* by urllib.
NoLink == [tag |-> "None"]

HrefRaised == [tag |-> "raised"]

\* The triple of resolve_href once the target is parsed.
Resolved(target, parsed, was_absolute) ==
    IF parsed.raised THEN HrefRaised
    ELSE [tag |-> "link", absolute |-> target, host |-> lower(parsed.netloc),
          was_absolute |-> was_absolute]

\* target, _ = urldefrag(target); parsed = urlparse(target)
ResolveTarget(target, was_absolute) ==
    IF target = Raised THEN HrefRaised
    ELSE Resolved(target, urlparse(target), was_absolute)

ResolveJoined(joined, was_absolute) ==
    IF joined = Raised THEN HrefRaised
    ELSE ResolveTarget(urldefrag(joined), was_absolute)

\* The else branch of resolve_href: own is urlparse(trimmed).
ResolveRelative(base_url, trimmed, own) ==
    IF own.raised THEN HrefRaised
    ELSE ResolveJoined(urljoin(base_url, trimmed), own.netloc # "")

\* A resolve_href that compares the prefixes without lower-casing the href.
ResolveTrimmedCaseSensitive(base_url, trimmed) ==
    IF trimmed = "" THEN NoLink
    ELSE IF \E k \in 1..Len(EXCLUDED_HREF_PREFIXES) :
                startswith(trimmed, EXCLUDED_HREF_PREFIXES[k])
    THEN NoLink
    ELSE IF startswith(trimmed, "//")
    THEN ResolveJoined("https:" \o trimmed, TRUE)
    ELSE ResolveRelative(base_url, trimmed, urlparse(trimmed))

ResolveTrimmed(base_url, trimmed) ==
    IF trimmed = "" THEN NoLink
    ELSE IF \E k \in 1..Len(EXCLUDED_HREF_PREFIXES) :
                startswith(lower(trimmed), EXCLUDED_HREF_PREFIXES[k])
    THEN NoLink
    ELSE IF startswith(trimmed, "//")
    THEN ResolveJoined("https:" \o trimmed, TRUE)
    ELSE ResolveRelative(base_url, trimmed, urlparse(trimmed))

\* resolve_href: NoLink for a rejected href, HrefRaised when urllib raises
\* ValueError, else the triple (target, host, was_absolute).
resolve_href(base_url, href) == ResolveTrimmed(base_url, strip(href))

(***************************************************************************)
(* Pages.  A fetched page is modelled after BeautifulSoup has parsed it and *)
(* get_audit_root has chosen the container: the anchors of the container   *)
(* in document order, each with its href attribute (None when it has none) *)
(* and its text, and the container's text without script, style, noscript  *)
(* and template elements.                                                  *)
(***************************************************************************)
\* The container of no html: BeautifulSoup(html or "") of process_row.
NoHtml == [anchors |-> <<>>, text |-> ""]

Issue(url, issue_type, snippet) ==
    [url |-> url, issue_type |-> issue_type, snippet |-> snippet]

\* urlparse(url).netloc.lower() of a URL that parses.
HostOf(url) == lower(urlparse(url).netloc)

\* extract_page_links: [raised |-> TRUE] when resolve_href raises, else the
\* PageLinks in document order.
RECURSIVE ExtractFrom(_, _, _, _)
ExtractFrom(anchors, base_url, k, links) ==
    IF k > Len(anchors) THEN [raised |-> FALSE, links |-> links]
    ELSE
    LET anchor == anchors[k]
        href == anchor.href
    IN  IF href = None \/ href = ""
        THEN ExtractFrom(anchors, base_url, k + 1, links)
        ELSE
        LET resolved == resolve_href(base_url, href)
        IN  IF resolved = HrefRaised THEN [raised |-> TRUE, links |-> links]
            ELSE IF resolved = NoLink
            THEN ExtractFrom(anchors, base_url, k + 1, links)
            ELSE ExtractFrom(anchors, base_url, k + 1,
                     Append(links,
                         [raw |-> strip(href),
                          absolute |-> resolved.absolute,
                          host |-> IF resolved.host = "" THEN HostOf(base_url)
                                   ELSE resolved.host,
                          anchor_text |-> collapse_whitespace(anchor.text),
                          was_absolute |-> resolved.was_absolute]))

extract_page_links(container, base_url) ==
    ExtractFrom(container.anchors, base_url, 1, <<>>)

\* link_snippet(link, extra); extra is None when the caller passes none.
link_snippet(link, extra) ==
    LET text == IF link.anchor_text = "" THEN "<no text>" ELSE link.anchor_text
        target == IF link.raw = "" THEN link.absolute ELSE link.raw
        snippet == "\"" \o text \o "\" -> " \o target
    IN  trim_snippet(IF extra = None \/ extra = "" THEN snippet
                     ELSE snippet \o " (" \o extra \o ")")

(***************************************************************************)
(* Placeholder text.                                                       *)
(***************************************************************************)
MAX_PLACEHOLDER_MATCHES == 20

PLACEHOLDER_CONTEXT == 80

\* The two patterns: the literal, and whether \b stands on both sides.
PLACEHOLDER_PATTERNS ==
    <<[literal |-> "lorem ipsum", word |-> FALSE],
      [literal |-> "placeholder", word |-> TRUE]>>

WordChars == "abcdefghijklmnopqrstuvwxyzABCDEFGHIJKLMNOPQRSTUVWXYZ0123456789_"

IsWordChar(c) == Index(WordChars, c) # 0

\* Whether pattern matches text at the 0-based position start (re.IGNORECASE).
MatchesAt(pattern, text, start) ==
    LET n == Len(pattern.literal)
    IN  /\ start + n <= Len(text)
        /\ LowerChar(Char(text, start + 1)) = Char(pattern.literal, 1)
        /\ lower(SubSeq(text, start + 1, start + n)) = pattern.literal
        /\ pattern.word =>
              /\ start = 0 \/ ~IsWordChar(Char(text, start))
              /\ start + n = Len(text) \/ ~IsWordChar(Char(text, start + n + 1))

\* pattern.finditer(text): the 0-based starts of the matches from start on,
\* left to right, none overlapping: the scan takes the first position from
\* start on where the pattern matches and goes on behind that match.
MatchesFrom(pattern, text, start) ==
    {s \in start..(Len(text) - Len(pattern.literal)) : MatchesAt(pattern, text, s)}

Least(S) == CHOOSE s \in S : \A t \in S : s <= t

\* The positions of at a scan takes: the least, then those behind its match.
RECURSIVE NonOverlapping(_, _)

Behind(at, width, first) ==
    <<first>> \o NonOverlapping({s \in at : s >= first + width}, width)

NonOverlapping(at, width) ==
    IF at = {} THEN <<>> ELSE Behind(at, width, Least(at))

finditer(pattern, text, start) ==
    NonOverlapping(MatchesFrom(pattern, text, start), Len(pattern.literal))

Max(a, b) == IF a >= b THEN a ELSE b

Min(a, b) == IF a <= b THEN a ELSE b

\* snippet_from_text(text, start, end) with Python's 0-based slice bounds.
snippet_from_text(text, start, end) ==
    LET snippet_start == Max(0, start - PLACEHOLDER_CONTEXT)
        snippet_end == Min(Len(text), end + PLACEHOLDER_CONTEXT)
    IN  trim_snippet(strip(SubSeq(text, snippet_start + 1, snippet_end)))

\* A find_placeholder_text that tests the cap only when a pattern is done.
RECURSIVE PlaceholderLoopCapPerPattern(_, _, _, _, _, _)
PlaceholderLoopCapPerPattern(page_url, text, p, matches, m, issues) ==
    IF p > Len(PLACEHOLDER_PATTERNS) THEN issues
    ELSE IF m > Len(matches)
    THEN IF p + 1 > Len(PLACEHOLDER_PATTERNS) THEN issues
         ELSE IF Len(issues) >= MAX_PLACEHOLDER_MATCHES THEN issues
         ELSE PlaceholderLoopCapPerPattern(page_url, text, p + 1,
                  finditer(PLACEHOLDER_PATTERNS[p + 1], text, 0), 1, issues)
    ELSE PlaceholderLoopCapPerPattern(page_url, text, p, matches, m + 1,
             Append(issues,
                 Issue(page_url, "Placeholder text",
                       "Found \"" \o SubSeq(text, matches[m] + 1,
                                            matches[m] + Len(PLACEHOLDER_PATTERNS[p].literal))
                           \o "\"")))

\* The loops of find_placeholder_text: pattern p, its matches from the m-th
\* on; the function returns as soon as it holds MAX_PLACEHOLDER_MATCHES issues.
RECURSIVE PlaceholderLoop(_, _, _, _, _, _)
PlaceholderLoop(page_url, text, p, matches, m, issues) ==
    IF p > Len(PLACEHOLDER_PATTERNS) THEN issues
    ELSE IF m > Len(matches)
    THEN IF p + 1 > Len(PLACEHOLDER_PATTERNS) THEN issues
         ELSE PlaceholderLoop(page_url, text, p + 1,
                  finditer(PLACEHOLDER_PATTERNS[p + 1], text, 0), 1, issues)
    ELSE
    LET start == matches[m]
        end == start + Len(PLACEHOLDER_PATTERNS[p].literal)
        snippet == snippet_from_text(text, start, end)
        found == Append(issues,
                     Issue(page_url, "Placeholder text",
                           "Found \"" \o SubSeq(text, start + 1, end)
                               \o "\" in \"" \o snippet \o "\""))
    IN  IF Len(found) >= MAX_PLACEHOLDER_MATCHES THEN found
        ELSE PlaceholderLoop(page_url, text, p, matches, m + 1, found)

find_placeholder_text(page_url, container) ==
    LET text == collapse_whitespace(strip(container.text))
    IN  IF text = "" THEN <<>>
        ELSE PlaceholderLoop(page_url, text, 1,
                 finditer(PLACEHOLDER_PATTERNS[1], text, 0), 1, <<>>)

(***************************************************************************)
(* The inputs of a run and the answers of the audited site.                *)
(***************************************************************************)
\* The most rows in the input list.
MaxPages == 2

\* The largest --concurrency.
MaxConcurrency == 2

\* The length of the longest anchor text and error message of the model,
\* beyond SNIPPET_LIMIT.
MaxExcess == 1

RECURSIVE Repeat(_, _)
Repeat(s, n) ==
    IF n = 0 THEN ""
    ELSE IF n % 2 = 1 THEN s \o Repeat(s, n - 1)
    ELSE LET half == Repeat(s, n \div 2) IN half \o half

SourceRow(raw_url, absolute_url, seo_description) ==
    [raw_url |-> raw_url, absolute_url |-> absolute_url,
     seo_description |-> seo_description]

PageUrls == {"https://site/a", "https://site/b"}

\* extract_field gives None for an empty or absent description column.
Descriptions == {None, "About us"}

Rows == {SourceRow(u, u, d) : u \in PageUrls, d \in Descriptions}

\* The input lists: up to MaxPages rows, with or without a description, whose
\* URLs alternate between the two pages (a row beyond the second repeats the
\* row two places before it), and the lists of two rows with the same URL.
PageUrlAt(i) == IF i % 2 = 1 THEN "https://site/a" ELSE "https://site/b"

RowsAlternate(rows) ==
    \A i \in DOMAIN rows :
        /\ rows[i].raw_url = PageUrlAt(i)
        /\ i > 2 => rows[i] = rows[i - 2]

DuplicateLists ==
    {rows \in [1..2 -> Rows] : \A i \in 1..2 : rows[i].raw_url = "https://site/a"}

InputLists ==
    UNION {{rows \in [1..n -> Rows] : RowsAlternate(rows)} : n \in 1..MaxPages}
        \cup DuplicateLists

\* What client.get gives: a response, or an httpx.HTTPError with its message.
Response(status_code, text) ==
    [type |-> "response", status_code |-> status_code, text |-> text]

HTTPError(message) == [type |-> "HTTPError", message |-> message]

\* The GET has not ended.
NoOutcome == [type |-> "none"]

\* The containers the site may serve.
BusyPage ==
    [anchors |-> <<[href |-> " /x#team ", text |-> "Our  team"],
                   [href |-> "https://Example.com/p",
                    text |-> Repeat("w", SNIPPET_LIMIT + MaxExcess)],
                   [href |-> "mailto:team@site", text |-> "Mail"],
                   [href |-> "//www.lifeline.org.au/help", text |-> ""],
                   [href |-> "b", text |-> "More"],
                   [href |-> "/x#top", text |-> "Top"]>>,
     text |-> "Our  team Lorem ipsum placeholder More Top"]

MalformedPage ==
    [anchors |-> <<[href |-> "/x", text |-> "Contact us"],
                   [href |-> "http://[site/x", text |-> "Broken"]>>,
     text |-> "Contact us Broken"]

Pages == {BusyPage, MalformedPage}

\* str(exc) of the httpx.HTTPError a GET may raise.
ErrorMessages == {"", Repeat("e", SNIPPET_LIMIT + MaxExcess)}

PageOutcomes ==
    {Response(404, NoHtml), Response(500, NoHtml)}
        \cup {Response(200, page) : page \in Pages}
        \cup {HTTPError(m) : m \in ErrorMessages}

LinkOutcomes ==
    {Response(200, NoHtml), Response(404, NoHtml), HTTPError("timed out")}

(***************************************************************************)
(* The pure functions of the audit on the inputs above, each computed once. *)
(***************************************************************************)
\* extract_page_links(page, url).
ExtractedLinks ==
    [url \in PageUrls |->
        [page \in Pages \cup {NoHtml} |-> extract_page_links(page, url)]]

\* find_placeholder_text(url, page).
PlaceholderIssues ==
    [url \in PageUrls |->
        [page \in Pages \cup {NoHtml} |-> find_placeholder_text(url, page)]]

\* urlparse(row.absolute_url).netloc.lower() of process_row.
BaseHost == [url \in PageUrls |-> HostOf(url)]

\* The links of the pages, and the extras detect_broken_links may pass.
AllLinks ==
    UNION {{ExtractedLinks[url][page].links[k] :
                k \in 1..Len(ExtractedLinks[url][page].links)} :
           url \in PageUrls, page \in Pages}

LinkExtras ==
    {None, "request failed"}
        \cup {"returned HTTP " \o ToString(o.status_code) :
                  o \in {l \in LinkOutcomes : l.type = "response"}}

\* link_snippet(link, extra).
LinkSnippets ==
    [link \in AllLinks |-> [extra \in LinkExtras |-> link_snippet(link, extra)]]

(***************************************************************************)
(* The host-policy classifiers.                                             *)
(***************************************************************************)
DEV_PROD_HOSTS ==
    {"lla-drupal-app-prod.salmonground-819df123.australiaeast.azurecontainerapps.io",
     "lla-drupal-app-uat.victoriouspond-08331c17.australiaeast.azurecontainerapps.io",
     "example.com"}

BLOCKED_LIFELINE_HOSTS ==
    {"lifeline.org.au", "www.lifeline.org.au", "toolkit.lifeline.org.au"}

\* A detect_absolute_links that does not test was_absolute.
RECURSIVE AbsoluteFromAnyLink(_, _, _, _, _)
AbsoluteFromAnyLink(page_url, links, hosts, issue_type, k) ==
    IF k > Len(links) THEN <<>>
    ELSE IF links[k].host \in hosts
    THEN <<Issue(page_url, issue_type, LinkSnippets[links[k]][None])>>
             \o AbsoluteFromAnyLink(page_url, links, hosts, issue_type, k + 1)
    ELSE AbsoluteFromAnyLink(page_url, links, hosts, issue_type, k + 1)

\* detect_absolute_links; the predicate is membership of the host in hosts.
RECURSIVE AbsoluteFrom(_, _, _, _, _)
AbsoluteFrom(page_url, links, hosts, issue_type, k) ==
    IF k > Len(links) THEN <<>>
    ELSE
    LET link == links[k]
        rest == AbsoluteFrom(page_url, links, hosts, issue_type, k + 1)
    IN  IF ~link.was_absolute THEN rest
        ELSE IF link.host \in hosts
        THEN <<Issue(page_url, issue_type, LinkSnippets[link][None])>> \o rest
        ELSE rest

detect_absolute_links(page_url, links, hosts, issue_type) ==
    AbsoluteFrom(page_url, links, hosts, issue_type, 1)

(***************************************************************************)
(* The page fetcher and the link status cache.                             *)
(***************************************************************************)
\* A fetch_page that takes only status 200 for success.
fetch_page_200_only(outcome) ==
    IF outcome.type = "HTTPError"
    THEN [page_status |-> "error", html |-> NoHtml, error |-> outcome.message]
    ELSE IF outcome.status_code = 404
    THEN [page_status |-> "404", html |-> NoHtml, error |-> None]
    ELSE IF outcome.status_code = 200
    THEN [page_status |-> "OK", html |-> outcome.text, error |-> None]
    ELSE [page_status |-> "error", html |-> NoHtml,
          error |-> "status " \o ToString(outcome.status_code)]

\* fetch_page after client.get: the tuple (page_status, html, error).
fetch_page(outcome) ==
    IF outcome.type = "HTTPError"
    THEN [page_status |-> "error", html |-> NoHtml, error |-> outcome.message]
    ELSE IF outcome.status_code = 404
    THEN [page_status |-> "404", html |-> NoHtml, error |-> None]
    ELSE IF 200 <= outcome.status_code /\ outcome.status_code < 300
    THEN [page_status |-> "OK", html |-> outcome.text, error |-> None]
    ELSE [page_status |-> "error", html |-> NoHtml,
          error |-> "status " \o ToString(outcome.status_code)]

\* The cache value None (a link whose GET raised httpx.HTTPError), among the
\* integer status codes.
StatusNone == -1

\* A fetch_link_status that takes an error status for a failure (as after
\* response.raise_for_status()).
link_status_raising_for_status(outcome) ==
    IF outcome.type = "HTTPError" THEN StatusNone
    ELSE IF outcome.status_code >= 400 THEN StatusNone
    ELSE outcome.status_code

\* fetch_link_status after client.get: the status it stores and returns.
link_status(outcome) ==
    IF outcome.type = "HTTPError" THEN StatusNone ELSE outcome.status_code

\* cache[url] = status
CacheStore(cache, url, status) ==
    [u \in DOMAIN cache \cup {url} |-> IF u = url THEN status ELSE cache[u]]

\* fetch_link_status(url, client, auth, cache) with no other task running
\* during its await, where client.get gives outcome if it is called: the
\* status returned, the cache afterwards and whether a GET was sent.
fetch_link_status(url, cache, outcome) ==
    IF url \in DOMAIN cache
    THEN [status |-> cache[url], cache |-> cache, requested |-> FALSE]
    ELSE [status |-> link_status(outcome),
          cache |-> CacheStore(cache, url, link_status(outcome)),
          requested |-> TRUE]

\* What detect_broken_links appends for a link once its status is known.
BrokenLinkIssues(page_url, link, status) ==
    IF status = StatusNone
    THEN <<Issue(page_url, "Broken link", LinkSnippets[link]["request failed"])>>
    ELSE IF status >= 400
    THEN <<Issue(page_url, "Broken link",
                 LinkSnippets[link]["returned HTTP " \o ToString(status)])>>
    ELSE <<>>

\* A detect_broken_links that does not skip the URLs it has seen.
RECURSIVE BrokenLoopNoSeen(_, _, _, _, _, _, _, _)
BrokenLoopNoSeen(page_url, links, base_host, cache, k, seen, issues, returned) ==
    IF k > Len(links)
    THEN [wait |-> FALSE, pos |-> k, seen |-> seen, issues |-> issues,
          returned |-> returned]
    ELSE IF links[k].host # base_host
    THEN BrokenLoopNoSeen(page_url, links, base_host, cache, k + 1, seen,
                          issues, returned)
    ELSE IF links[k].absolute \in DOMAIN cache
    THEN BrokenLoopNoSeen(page_url, links, base_host, cache, k + 1,
                          seen \cup {links[k].absolute},
                          issues \o BrokenLinkIssues(page_url, links[k],
                                                     cache[links[k].absolute]),
                          returned \cup {<<links[k].absolute,
                                            cache[links[k].absolute]>>})
    ELSE [wait |-> TRUE, pos |-> k, seen |-> seen \cup {links[k].absolute},
          issues |-> issues, returned |-> returned]

\* A fetch_link_status that takes an entry of None for no entry (`if
\* cache.get(url) is not None`) and fetches the URL again.
RECURSIVE BrokenLoopRefetchNone(_, _, _, _, _, _, _, _)
BrokenLoopRefetchNone(page_url, links, base_host, cache, k, seen, issues, returned) ==
    IF k > Len(links)
    THEN [wait |-> FALSE, pos |-> k, seen |-> seen, issues |-> issues,
          returned |-> returned]
    ELSE IF links[k].host # base_host \/ links[k].absolute \in seen
    THEN BrokenLoopRefetchNone(page_url, links, base_host, cache, k + 1, seen,
                               issues, returned)
    ELSE IF /\ links[k].absolute \in DOMAIN cache
            /\ cache[links[k].absolute] # StatusNone
    THEN BrokenLoopRefetchNone(page_url, links, base_host, cache, k + 1,
                               seen \cup {links[k].absolute},
                               issues \o BrokenLinkIssues(page_url, links[k],
                                                          cache[links[k].absolute]),
                               returned \cup {<<links[k].absolute,
                                                 cache[links[k].absolute]>>})
    ELSE [wait |-> TRUE, pos |-> k, seen |-> seen \cup {links[k].absolute},
          issues |-> issues, returned |-> returned]

\* A detect_broken_links that does not compare the link's host with
\* base_host.
RECURSIVE BrokenLoopAnyHost(_, _, _, _, _, _, _, _)
BrokenLoopAnyHost(page_url, links, base_host, cache, k, seen, issues, returned) ==
    IF k > Len(links)
    THEN [wait |-> FALSE, pos |-> k, seen |-> seen, issues |-> issues,
          returned |-> returned]
    ELSE IF links[k].absolute \in seen
    THEN BrokenLoopAnyHost(page_url, links, base_host, cache, k + 1, seen,
                           issues, returned)
    ELSE IF links[k].absolute \in DOMAIN cache
    THEN BrokenLoopAnyHost(page_url, links, base_host, cache, k + 1,
                           seen \cup {links[k].absolute},
                           issues \o BrokenLinkIssues(page_url, links[k],
                                                      cache[links[k].absolute]),
                           returned \cup {<<links[k].absolute,
                                             cache[links[k].absolute]>>})
    ELSE [wait |-> TRUE, pos |-> k, seen |-> seen \cup {links[k].absolute},
          issues |-> issues, returned |-> returned]

\* A detect_broken_links that reports nothing for a status taken from the
\* cache.
RECURSIVE BrokenLoopHitUnreported(_, _, _, _, _, _, _, _)
BrokenLoopHitUnreported(page_url, links, base_host, cache, k, seen, issues, returned) ==
    IF k > Len(links)
    THEN [wait |-> FALSE, pos |-> k, seen |-> seen, issues |-> issues,
          returned |-> returned]
    ELSE IF links[k].host # base_host \/ links[k].absolute \in seen
    THEN BrokenLoopHitUnreported(page_url, links, base_host, cache, k + 1, seen,
                                 issues, returned)
    ELSE IF links[k].absolute \in DOMAIN cache
    THEN BrokenLoopHitUnreported(page_url, links, base_host, cache, k + 1,
                                 seen \cup {links[k].absolute}, issues,
                                 returned \cup {<<links[k].absolute,
                                                   cache[links[k].absolute]>>})
    ELSE [wait |-> TRUE, pos |-> k, seen |-> seen \cup {links[k].absolute},
          issues |-> issues, returned |-> returned]

\* The loop of detect_broken_links from the k-th link on, up to the first
\* link whose URL is not in the cache (fetch_link_status then awaits
\* client.get: wait is TRUE and pos is that link) or to the end of the
\* links.  A cache hit returns without an await, so the loop goes on in the
\* same step.  returned collects the (url, status) pairs fetch_link_status
\* gave back.
RECURSIVE BrokenLoop(_, _, _, _, _, _, _, _)
BrokenLoop(page_url, links, base_host, cache, k, seen, issues, returned) ==
    IF k > Len(links)
    THEN [wait |-> FALSE, pos |-> k, seen |-> seen, issues |-> issues,
          returned |-> returned]
    ELSE
    LET link == links[k]
    IN  IF link.host # base_host
        THEN BrokenLoop(page_url, links, base_host, cache, k + 1, seen, issues,
                        returned)
        ELSE IF link.absolute \in seen
        THEN BrokenLoop(page_url, links, base_host, cache, k + 1, seen, issues,
                        returned)
        ELSE IF link.absolute \in DOMAIN cache
        THEN BrokenLoop(page_url, links, base_host, cache, k + 1,
                        seen \cup {link.absolute},
                        issues \o BrokenLinkIssues(page_url, link,
                                                   cache[link.absolute]),
                        returned \cup {<<link.absolute, cache[link.absolute]>>})
        ELSE [wait |-> TRUE, pos |-> k, seen |-> seen \cup {link.absolute},
              issues |-> issues, returned |-> returned]

(***************************************************************************)
(* process_row.                                                            *)
(***************************************************************************)
\* A description check with its test inverted.
MissingDescriptionInverted(row) ==
    IF row.seo_description = None \/ row.seo_description = ""
    THEN <<>>
    ELSE <<Issue(row.raw_url, "Missing SEO description",
                 "SEO Description column is blank.")>>

\* The MissingDescription check: `not row.seo_description`.
MissingDescription(row) ==
    IF row.seo_description = None \/ row.seo_description = ""
    THEN <<Issue(row.raw_url, "Missing SEO description",
                 "SEO Description column is blank.")>>
    ELSE <<>>

\* The snippet of the Fetch failed issue: `error or "Unknown error"`.
FetchFailedSnippet(error) ==
    IF error = None \/ error = "" THEN "Unknown error" ELSE error

\* A process_row that carries on after a 404.
NoEarlyReturn(status) == FALSE

\* `if page_status == "404":`, the first early return of process_row.
Is404(status) == status = "404"

\* A process_row that carries on after a failed fetch.
NoErrorReturn(status) == FALSE

\* `if page_status == "error":`, the second early return of process_row.
IsError(status) == status = "error"

\* The task's state when process_row returns issues.
Returns(status, was_extracted, issues, returned) ==
    [pc |-> "returned", issues |-> issues, links |-> <<>>, pos |-> 0,
     seen |-> {}, returned |-> returned, page_status |-> status,
     extracted |-> was_extracted]

\* What the loop state means for the task: it awaits the GET of links[pos],
\* or detect_broken_links returns, find_placeholder_text runs and process_row
\* returns.
AfterLoop(row, root, links, loop, fetched_status) ==
    IF loop.wait
    THEN [pc |-> "fetch_link_status", issues |-> loop.issues, links |-> links,
          pos |-> loop.pos, seen |-> loop.seen, returned |-> loop.returned,
          page_status |-> fetched_status, extracted |-> TRUE]
    ELSE Returns(fetched_status, TRUE,
                 loop.issues \o PlaceholderIssues[row.raw_url][root],
                 loop.returned)

\* A process_row that runs the blocked-host check before the dev/prod check.
AuditLinksBlockedFirst(row, root, ex, cache, issues, fetched_status) ==
    IF ex.raised
    THEN [pc |-> "raised", issues |-> issues, links |-> <<>>, pos |-> 0,
          seen |-> {}, returned |-> {}, page_status |-> fetched_status,
          extracted |-> TRUE]
    ELSE AfterLoop(row, root, ex.links,
             BrokenLoop(row.raw_url, ex.links, BaseHost[row.absolute_url],
                 cache, 1, {},
                 issues
                     \o detect_absolute_links(row.raw_url, ex.links,
                            BLOCKED_LIFELINE_HOSTS, "Link to lifeline.org.au")
                     \o detect_absolute_links(row.raw_url, ex.links,
                            DEV_PROD_HOSTS, "Absolute link to dev/prod domain"),
                 {}),
             fetched_status)

\* process_row from extract_page_links on (ex is its result); issues holds
\* what the row has so far.
AuditLinks(row, root, ex, cache, issues, fetched_status) ==
    IF ex.raised
    THEN [pc |-> "raised", issues |-> issues, links |-> <<>>, pos |-> 0,
          seen |-> {}, returned |-> {}, page_status |-> fetched_status,
          extracted |-> TRUE]
    ELSE AfterLoop(row, root, ex.links,
             BrokenLoop(row.raw_url, ex.links, BaseHost[row.absolute_url],
                 cache, 1, {},
                 issues
                     \o detect_absolute_links(row.raw_url, ex.links,
                            DEV_PROD_HOSTS, "Absolute link to dev/prod domain")
                     \o detect_absolute_links(row.raw_url, ex.links,
                            BLOCKED_LIFELINE_HOSTS, "Link to lifeline.org.au"),
                 {}),
             fetched_status)

\* process_row after fetch_page returned fetched; issues holds the
\* MissingDescription issue, if any.
AuditFetched(row, fetched, cache, issues) ==
    IF Is404(fetched.page_status)
    THEN Returns(fetched.page_status, FALSE,
                 issues \o <<Issue(row.raw_url, "Page 404", "GET returned 404")>>,
                 {})
    ELSE IF IsError(fetched.page_status)
    THEN Returns(fetched.page_status, FALSE,
                 issues \o <<Issue(row.raw_url, "Fetch failed",
                                   FetchFailedSnippet(fetched.error))>>,
                 {})
    ELSE AuditLinks(row, fetched.html,
                    ExtractedLinks[row.absolute_url][fetched.html], cache, issues,
                    fetched.page_status)

\* process_row from the end of the page's GET to its next await, its return
\* or its raise.
ProcessFetched(row, outcome, cache) ==
    AuditFetched(row, fetch_page(outcome), cache, MissingDescription(row))

\* process_row from the end of the GET that fetch_link_status awaits (status
\* is what it stores in the cache, stored the cache after that) to its next
\* await or return.
ProcessLinkStatus(row, root, links, pos, seen, issues, status, stored, fetched_status) ==
    AfterLoop(row, root, links,
        BrokenLoop(row.raw_url, links, BaseHost[row.absolute_url], stored,
                   pos + 1, seen,
                   issues \o BrokenLinkIssues(row.raw_url, links[pos], status),
                   {<<links[pos].absolute, status>>}),
        fetched_status)

(***************************************************************************)
(* The steps of a run.                                                     *)
(***************************************************************************)
\* The state of run_audit.
audit_vars ==
    <<source_rows, concurrency, semaphore, link_cache, pc, issues_of, root_of,
      links_of, pos_of, seen_of, run, report, page_status, extracted,
      page_gets, outcome_of, link_gets, observed, observed_by, finished>>

vars == <<audit_vars, call, result, manifest, clock>>

\* No function is called on its own, and none has returned.
NoCall == [fn |-> "none"]

Pending == [tag |-> "pending"]

Tasks == DOMAIN source_rows

\* The tasks inside `async with semaphore`.
Holding == {i \in Tasks : pc[i] \in {"fetch_page", "fetch_link_status"}}

Init ==
    /\ source_rows \in InputLists
    /\ concurrency \in 1..MaxConcurrency
    /\ semaphore = concurrency
    /\ link_cache = <<>>
    /\ pc = [i \in Tasks |-> "created"]
    /\ issues_of = [i \in Tasks |-> <<>>]
    /\ root_of = [i \in Tasks |-> NoHtml]
    /\ links_of = [i \in Tasks |-> <<>>]
    /\ pos_of = [i \in Tasks |-> 0]
    /\ seen_of = [i \in Tasks |-> {}]
    /\ run = "gathering"
    /\ report = <<>>
    /\ page_status = [i \in Tasks |-> None]
    /\ extracted = [i \in Tasks |-> FALSE]
    /\ page_gets = [i \in Tasks |-> 0]
    /\ outcome_of = [i \in Tasks |-> NoOutcome]
    /\ link_gets = <<>>
    /\ observed = {}
    /\ observed_by = [i \in Tasks |-> {}]
    /\ finished = <<>>
    /\ call = NoCall
    /\ result = Pending
    /\ manifest = <<>>
    /\ clock = 0

\* A semaphore that never locks.
locked_never(i) == FALSE

\* asyncio.Semaphore.locked(): no free slot, or an earlier task still waits
\* (the waiters are woken in the order they came, the order of the tasks).
locked(i) ==
    \/ semaphore = 0
    \/ \E j \in Tasks : j < i /\ pc[j] = "created"

\* One more GET of url by fetch_link_status.
CountGet(gets, url) ==
    [u \in DOMAIN gets \cup {url} |->
        IF u = url THEN (IF u \in DOMAIN gets THEN gets[u] ELSE 0) + 1
        ELSE gets[u]]

\* A process_row whose `async with semaphore` ends after fetch_page: the slot
\* is given back before the links are checked.
ContinueOutsideSemaphore(i, next) ==
    /\ pc' = [pc EXCEPT ![i] = next.pc]
    /\ issues_of' = [issues_of EXCEPT ![i] = next.issues]
    /\ links_of' = [links_of EXCEPT ![i] = next.links]
    /\ pos_of' = [pos_of EXCEPT ![i] = next.pos]
    /\ seen_of' = [seen_of EXCEPT ![i] = next.seen]
    /\ page_status' = [page_status EXCEPT ![i] = next.page_status]
    /\ extracted' = [extracted EXCEPT ![i] = next.extracted]
    /\ observed' = observed \cup next.returned
    /\ observed_by' = [observed_by EXCEPT ![i] = @ \cup next.returned]
    /\ semaphore' = IF pc[i] = "fetch_page" THEN semaphore + 1 ELSE semaphore
    /\ IF next.pc = "fetch_link_status"
       THEN /\ link_gets' = CountGet(link_gets, next.links[next.pos].absolute)
            /\ UNCHANGED finished
       ELSE /\ finished' = Append(finished, i)
            /\ UNCHANGED link_gets

\* The task takes the state next.  When it awaits fetch_link_status it sends
\* the GET of its awaited link; when it returns or raises it leaves
\* `async with semaphore`.
Continue(i, next) ==
    /\ pc' = [pc EXCEPT ![i] = next.pc]
    /\ issues_of' = [issues_of EXCEPT ![i] = next.issues]
    /\ links_of' = [links_of EXCEPT ![i] = next.links]
    /\ pos_of' = [pos_of EXCEPT ![i] = next.pos]
    /\ seen_of' = [seen_of EXCEPT ![i] = next.seen]
    /\ page_status' = [page_status EXCEPT ![i] = next.page_status]
    /\ extracted' = [extracted EXCEPT ![i] = next.extracted]
    /\ observed' = observed \cup next.returned
    /\ observed_by' = [observed_by EXCEPT ![i] = @ \cup next.returned]
    /\ IF next.pc = "fetch_link_status"
       THEN /\ link_gets' = CountGet(link_gets, next.links[next.pos].absolute)
            /\ UNCHANGED <<semaphore, finished>>
       ELSE /\ semaphore' = semaphore + 1
            /\ finished' = Append(finished, i)
            /\ UNCHANGED link_gets

\* process_row enters `async with semaphore` and awaits fetch_page's GET.
Acquire(i) ==
    /\ run = "gathering"
    /\ pc[i] = "created"
    /\ ~locked(i)
    /\ semaphore' = semaphore - 1
    /\ pc' = [pc EXCEPT ![i] = "fetch_page"]
    /\ page_gets' = [page_gets EXCEPT ![i] = @ + 1]
    /\ UNCHANGED <<source_rows, concurrency, link_cache, issues_of, root_of,
                   links_of, pos_of, seen_of, run, report, page_status,
                   extracted, outcome_of, link_gets, observed, observed_by,
                   finished, call, result, manifest, clock>>

\* A fetch_page that records the page's status in the link status cache.
PageFetchedCachingPage(i, outcome) ==
    /\ run = "gathering"
    /\ pc[i] = "fetch_page"
    /\ Continue(i, ProcessFetched(source_rows[i], outcome, link_cache))
    /\ root_of' = [root_of EXCEPT ![i] = fetch_page(outcome).html]
    /\ outcome_of' = [outcome_of EXCEPT ![i] = outcome]
    /\ link_cache' = CacheStore(link_cache, source_rows[i].absolute_url,
                                link_status(outcome))
    /\ UNCHANGED <<source_rows, concurrency, run, report, page_gets, call,
                   result, manifest, clock>>

\* The page's GET ends with outcome; process_row runs to its next await, its
\* return or its raise.
PageFetched(i, outcome) ==
    /\ run = "gathering"
    /\ pc[i] = "fetch_page"
    /\ Continue(i, ProcessFetched(source_rows[i], outcome, link_cache))
    /\ root_of' = [root_of EXCEPT ![i] = fetch_page(outcome).html]
    /\ outcome_of' = [outcome_of EXCEPT ![i] = outcome]
    /\ UNCHANGED <<source_rows, concurrency, link_cache, run, report, page_gets,
                   call, result, manifest, clock>>

\* fetch_link_status stores status for url and detect_broken_links goes on
\* with the cache stored.
StoreAndContinue(i, status, stored) ==
    /\ link_cache' = stored
    /\ Continue(i, ProcessLinkStatus(source_rows[i], root_of[i], links_of[i],
                                     pos_of[i], seen_of[i], issues_of[i],
                                     status, stored, page_status[i]))

\* The GET that fetch_link_status awaits ends with outcome.
LinkFetched(i, outcome) ==
    /\ run = "gathering"
    /\ pc[i] = "fetch_link_status"
    /\ StoreAndContinue(i, link_status(outcome),
           CacheStore(link_cache, links_of[i][pos_of[i]].absolute,
                      link_status(outcome)))
    /\ UNCHANGED <<source_rows, concurrency, root_of, run, report, page_gets,
                   outcome_of, call, result, manifest, clock>>

\* The results in the order the tasks finished, as asyncio.as_completed
\* would give them.
nested_results_as_completed ==
    [k \in 1..Len(finished) |-> issues_of[finished[k]]]

\* nested_results: asyncio.gather gives the tasks' results in the order of
\* the tasks, whatever the order they finished in.
nested_results == [i \in 1..Len(source_rows) |-> issues_of[i]]

\* [issue for result in nested_results for issue in result]
RECURSIVE Flatten(_, _)
Flatten(nested, i) ==
    IF i > Len(nested) THEN <<>> ELSE nested[i] \o Flatten(nested, i + 1)

\* asyncio.gather returns once every task has returned; run_audit flattens
\* the results and writes the report.
GatherReturns ==
    /\ run = "gathering"
    /\ \A i \in Tasks : pc[i] = "returned"
    /\ report' = Flatten(nested_results, 1)
    /\ run' = "done"
    /\ UNCHANGED <<source_rows, concurrency, semaphore, link_cache, pc,
                   issues_of, root_of, links_of, pos_of, seen_of, page_status,
                   extracted, page_gets, outcome_of, link_gets, observed,
                   observed_by, finished, call, result, manifest, clock>>

\* asyncio.gather raises the exception of a task that raised, out of
\* run_audit: no report is written, and asyncio.run cancels the tasks still
\* running, which leave the semaphore.
GatherRaises ==
    /\ run = "gathering"
    /\ \E i \in Tasks : pc[i] = "raised"
    /\ run' = "failed"
    /\ pc' = [i \in Tasks |->
                 IF pc[i] \in {"returned", "raised"} THEN pc[i] ELSE "cancelled"]
    /\ semaphore' = semaphore + Cardinality(Holding)
    /\ UNCHANGED <<source_rows, concurrency, link_cache, issues_of, root_of,
                   links_of, pos_of, seen_of, report, page_status, extracted,
                   page_gets, outcome_of, link_gets, observed, observed_by,
                   finished, call, result, manifest, clock>>

Next ==
    \/ \E i \in Tasks : Acquire(i)
    \/ \E i \in Tasks : \E outcome \in PageOutcomes : PageFetched(i, outcome)
    \/ \E i \in Tasks : \E outcome \in LinkOutcomes : LinkFetched(i, outcome)
    \/ GatherReturns
    \/ GatherRaises

Spec == Init /\ [][Next]_vars

\* The event loop runs every task that can run, and every GET ends, with a
\* response or an error, within the client's timeout.
FairSpec == Spec /\ WF_vars(Next)

(***************************************************************************)
(* The functions of the audit called on their own, outside a run: call     *)
(* holds the function and its arguments, result what it returned.          *)
(***************************************************************************)
\* No run_audit is under way.
NoRun ==
    /\ source_rows = <<>>
    /\ concurrency = 1
    /\ semaphore = 1
    /\ link_cache = <<>>
    /\ pc = <<>>
    /\ issues_of = <<>>
    /\ root_of = <<>>
    /\ links_of = <<>>
    /\ pos_of = <<>>
    /\ seen_of = <<>>
    /\ run = "idle"
    /\ report = <<>>
    /\ page_status = <<>>
    /\ extracted = <<>>
    /\ page_gets = <<>>
    /\ outcome_of = <<>>
    /\ link_gets = <<>>
    /\ observed = {}
    /\ observed_by = <<>>
    /\ finished = <<>>

\* The call returned value.
Returned(value) == [tag |-> "returned", value |-> value]

\* The texts given to trim_snippet: of every length up to SNIPPET_LIMIT +
\* MaxExcess, without whitespace, and with a run of spaces near the cut.
SnippetTexts ==
    {Repeat("a", n) : n \in 0..(SNIPPET_LIMIT + MaxExcess)}
        \cup {Repeat("a", n) \o Repeat(" ", k) \o Repeat("b", total - n - k) :
                  n \in (SNIPPET_LIMIT - 8)..(SNIPPET_LIMIT - 3),
                  k \in 1..3,
                  total \in SNIPPET_LIMIT..(SNIPPET_LIMIT + MaxExcess)}

TrimSnippetCalls == {[fn |-> "trim_snippet", text |-> t] : t \in SnippetTexts}

\* trim_snippet(text)
CallTrimSnippet ==
    /\ call.fn = "trim_snippet"
    /\ result = Pending
    /\ result' = Returned(trim_snippet(call.text))
    /\ UNCHANGED <<audit_vars, call, manifest, clock>>

\* The most matches of one placeholder pattern in a page's text.
MaxPlaceholders == 13

\* The page texts given to find_placeholder_text: a times the first pattern's
\* phrase and b times the second's word, in lower case or capitalised (by
\* the parity of a and b), then a word the second pattern must not match.
PlaceholderTexts ==
    {Repeat(IF a % 2 = 1 THEN "lorem ipsum" ELSE "Lorem IPSUM", a)
         \o Repeat(IF b % 2 = 1 THEN " placeholder" ELSE " Placeholder", b)
         \o "  placeholders" :
        a \in 0..MaxPlaceholders, b \in 0..MaxPlaceholders}

FindPlaceholderCalls ==
    {[fn |-> "find_placeholder_text", page_url |-> "https://site/a",
      container |-> [anchors |-> <<>>, text |-> t]] : t \in PlaceholderTexts}

\* find_placeholder_text(page_url, container)
CallFindPlaceholderText ==
    /\ call.fn = "find_placeholder_text"
    /\ result = Pending
    /\ result' = Returned(find_placeholder_text(call.page_url, call.container))
    /\ UNCHANGED <<audit_vars, call, manifest, clock>>

\* The call raised ValueError.
Raises == [tag |-> "raised"]

\* The page URLs given to resolve_href and extract_page_links as base_url.
ResolveBases == {"https://site/a", "https://site/dir/page?q=1"}

\* The href attributes given to resolve_href: empty and blank ones, the
\* excluded prefixes in either case and behind whitespace, relative,
\* absolute and scheme-relative references with and without fragment, other
\* schemes, and hosts with an unbalanced bracket.
Hrefs ==
    {"", " ", "\t\n ",
     "mailto:team@site", "MAILTO:team@site", " Mailto:team@site ",
     "tel:131114", " tel:131114", "Tel:131114",
     "javascript:void(0)", "JavaScript:void(0)",
     "data:text/plain,hi", "DATA:,",
     "#", "#top", "  #top ",
     "/x", "/x#", "/x#a", "/x#b", " /x#team ", "/x?q=1", "/x?q=1#a",
     "y", "y#a", "?q=2", "?q=2#a", "sub/y#a#b",
     "https://site/x", "https://site/x#a", "https://site/x#b",
     "HTTPS://Site/x#a", "http://Example.com/p#f", "https://example.com",
     "//www.lifeline.org.au/help", "//www.lifeline.org.au/help#top", "//site",
     "ftp://files/x#f", "foo:bar#baz", "telephone", "data",
     "http://[site/x", "//[x", "http://site]/x", "/x#[a"}

ResolveHrefCalls ==
    {[fn |-> "resolve_href", base_url |-> b, href |-> h] :
        b \in ResolveBases, h \in Hrefs}

\* resolve_href(base_url, href)
CallResolveHref ==
    /\ call.fn = "resolve_href"
    /\ result = Pending
    /\ result' = IF resolve_href(call.base_url, call.href) = HrefRaised
                 THEN Raises
                 ELSE Returned(resolve_href(call.base_url, call.href))
    /\ UNCHANGED <<audit_vars, call, manifest, clock>>

\* The hrefs of the first anchor of a container with two anchors.
FirstHrefs ==
    {"/x", "/x#a", "y", "?q=2", "https://site/x#a", "mailto:team@site",
     " ", "//site", "http://[site/x"}

\* The containers given to extract_page_links: one anchor, with any href or
\* none, or two anchors.
AnchorLists ==
    {<<[href |-> h, text |-> "One"]>> : h \in Hrefs \cup {None}}
        \cup {<<[href |-> g, text |-> "One"], [href |-> h, text |-> "Two"]>> :
                  g \in FirstHrefs, h \in Hrefs}

ExtractPageLinksCalls ==
    {[fn |-> "extract_page_links", base_url |-> b,
      container |-> [anchors |-> a, text |-> "One Two"]] :
        b \in ResolveBases, a \in AnchorLists}

\* extract_page_links(container, base_url)
CallExtractPageLinks ==
    /\ call.fn = "extract_page_links"
    /\ result = Pending
    /\ result' = IF extract_page_links(call.container, call.base_url).raised
                 THEN Raises
                 ELSE Returned(extract_page_links(call.container,
                                                  call.base_url).links)
    /\ UNCHANGED <<audit_vars, call, manifest, clock>>

\* The most links in a list given to detect_absolute_links.
MaxLinks == 2

\* The predicates given to detect_absolute_links, each the membership in a
\* set of hosts, with the issue type: the two of process_row, and one that
\* holds of the audited site's own host.
HostPredicates ==
    {[hosts |-> DEV_PROD_HOSTS, issue_type |-> "Absolute link to dev/prod domain"],
     [hosts |-> BLOCKED_LIFELINE_HOSTS, issue_type |-> "Link to lifeline.org.au"],
     [hosts |-> {"site"}, issue_type |-> "Link to site"]}

\* The lists of up to MaxLinks links of the pages, in any order, with repeats.
LinkLists == UNION {[1..n -> AllLinks] : n \in 0..MaxLinks}

DetectAbsoluteLinksCalls ==
    {[fn |-> "detect_absolute_links", page_url |-> "/a", links |-> l,
      hosts |-> p.hosts, issue_type |-> p.issue_type] :
        l \in LinkLists, p \in HostPredicates}

\* detect_absolute_links(page_url, links, predicate, issue_type)
CallDetectAbsoluteLinks ==
    /\ call.fn = "detect_absolute_links"
    /\ result = Pending
    /\ result' = Returned(detect_absolute_links(call.page_url, call.links,
                                                call.hosts, call.issue_type))
    /\ UNCHANGED <<audit_vars, call, manifest, clock>>

\* The status codes of the responses given to fetch_page and
\* fetch_link_status on their own.
StatusCodes == {199, 200, 204, 299, 300, 301, 400, 404, 500, 503}

\* What client.get gives fetch_link_status: a response with any status, or
\* an httpx.HTTPError (a timeout, a refused connection).
LinkGetOutcomes ==
    {Response(c, NoHtml) : c \in StatusCodes}
        \cup {HTTPError("timed out"), HTTPError("")}

LinkUrls == {"https://site/x", "https://site/b"}

\* The caches given to fetch_link_status: any entries for the link URLs.
Caches ==
    UNION {[urls -> {StatusNone, 200, 404}] : urls \in SUBSET LinkUrls}

FetchLinkStatusCalls ==
    {[fn |-> "fetch_link_status", url |-> u, cache |-> c, outcome |-> o] :
        u \in LinkUrls, c \in Caches, o \in LinkGetOutcomes}

\* fetch_link_status(url, client, auth, cache)
CallFetchLinkStatus ==
    /\ call.fn = "fetch_link_status"
    /\ result = Pending
    /\ result' = Returned(fetch_link_status(call.url, call.cache, call.outcome))
    /\ UNCHANGED <<audit_vars, call, manifest, clock>>

\* What client.get gives fetch_page: a response with any status and a body,
\* or an httpx.HTTPError.
PageGetOutcomes ==
    {Response(c, BusyPage) : c \in StatusCodes}
        \cup {HTTPError(m) : m \in ErrorMessages \cup {"timed out"}}

FetchPageCalls == {[fn |-> "fetch_page", outcome |-> o] : o \in PageGetOutcomes}

\* fetch_page(client, url, auth)
CallFetchPage ==
    /\ call.fn = "fetch_page"
    /\ result = Pending
    /\ result' = Returned(fetch_page(call.outcome))
    /\ UNCHANGED <<audit_vars, call, manifest, clock>>

Calls ==
    TrimSnippetCalls \cup FindPlaceholderCalls \cup ResolveHrefCalls
        \cup ExtractPageLinksCalls \cup DetectAbsoluteLinksCalls
        \cup FetchLinkStatusCalls \cup FetchPageCalls

CallInit ==
    /\ NoRun
    /\ call \in Calls
    /\ result = Pending
    /\ manifest = <<>>
    /\ clock = 0

CallNext ==
    \/ CallTrimSnippet
    \/ CallFindPlaceholderText
    \/ CallResolveHref
    \/ CallExtractPageLinks
    \/ CallDetectAbsoluteLinks
    \/ CallFetchLinkStatus
    \/ CallFetchPage

CallSpec == CallInit /\ [][CallNext]_vars

(***************************************************************************)
(* The media manifest of src/collect_media.py: main calls                  *)
(* update_manifest_entry for every PDF link of every search hit, on the    *)
(* manifest load_manifest read.  A step is one call; call holds its        *)
(* arguments and result what it returned.                                  *)
(***************************************************************************)
\* The most calls of update_manifest_entry in a run of collect_media; the
\* clock has gone on by one at each call.
MaxTime == 3

\* utc_now() at the time at, as text.
Stamp(at) == "T" \o ToString(at)

\* The position of the first " | " of s from position i on, or 0.
RECURSIVE FindSeparator(_, _)
FindSeparator(s, i) ==
    IF i + 2 > Len(s) THEN 0
    ELSE IF SubSeq(s, i, i + 2) = " | " THEN i
    ELSE FindSeparator(s, i + 1)

\* s.split(" | ")
RECURSIVE SplitSources(_)
SplitAtSeparator(s, at) ==
    IF at = 0 THEN <<s>>
    ELSE <<SubSeq(s, 1, at - 1)>> \o SplitSources(SubSeq(s, at + 3, Len(s)))

SplitSources(s) == SplitAtSeparator(s, FindSeparator(s, 1))

\* [item.strip() for item in items if item.strip()]
RECURSIVE StrippedItems(_, _)
StrippedItems(items, k) ==
    IF k > Len(items) THEN <<>>
    ELSE IF strip(items[k]) = "" THEN StrippedItems(items, k + 1)
    ELSE <<strip(items[k])>> \o StrippedItems(items, k + 1)

\* " | ".join(items)
RECURSIVE JoinSources(_, _)
JoinSources(items, k) ==
    IF k > Len(items) THEN ""
    ELSE IF k = Len(items) THEN items[k]
    ELSE items[k] \o " | " \o JoinSources(items, k + 1)

\* The entry update_manifest_entry makes for a pdf_url it has not seen.
NewEntry(pdf_url, query, at) ==
    [pdf_url |-> pdf_url, sources |-> "", source_title |-> "",
     first_query |-> query, first_seen_at |-> at, last_seen_at |-> at,
     downloaded_file |-> "", notes |-> ""]

\* entry["source_title"] = source_title, when it is given and the entry has
\* none.
WithTitle(entry, source_title) ==
    IF source_title # "" /\ entry.source_title = ""
    THEN [entry EXCEPT !.source_title = source_title]
    ELSE entry

\* source_url is appended to the entry's sources, when it is given and is
\* not among them (listed holds the sources as split and stripped).
WithSourceAmong(entry, source_url, listed) ==
    IF source_url # "" /\ \A k \in 1..Len(listed) : listed[k] # source_url
    THEN [entry EXCEPT !.sources = JoinSources(Append(listed, source_url), 1)]
    ELSE entry

WithSource(entry, source_url) ==
    WithSourceAmong(entry, source_url,
                    StrippedItems(SplitSources(entry.sources), 1))

\* manifest[pdf_url] = entry
ManifestStore(entries, pdf_url, entry) ==
    [u \in DOMAIN entries \cup {pdf_url} |->
        IF u = pdf_url THEN entry ELSE entries[u]]

\* An update_manifest_entry that takes over the query of every call.
update_manifest_entry_last_query(entries, pdf_url, source_url, source_title, query, at) ==
    [is_new |-> pdf_url \notin DOMAIN entries,
     manifest |->
         ManifestStore(entries, pdf_url,
             WithSource(WithTitle(
                 IF pdf_url \notin DOMAIN entries
                 THEN NewEntry(pdf_url, query, at)
                 ELSE [entries[pdf_url] EXCEPT !.last_seen_at = at,
                                              !.first_query = query],
                 source_title), source_url))]

\* update_manifest_entry(manifest, pdf_url=, source_url=, source_title=,
\* query=), where utc_now() gives at: what it returns, and the manifest
\* afterwards.
update_manifest_entry(entries, pdf_url, source_url, source_title, query, at) ==
    [is_new |-> pdf_url \notin DOMAIN entries,
     manifest |->
         ManifestStore(entries, pdf_url,
             WithSource(WithTitle(
                 IF pdf_url \notin DOMAIN entries
                 THEN NewEntry(pdf_url, query, at)
                 ELSE [entries[pdf_url] EXCEPT !.last_seen_at = at],
                 source_title), source_url))]

\* The PDF links, the pages they are found on, the titles of the search
\* hits and the queries of the model.
PdfUrls ==
    {"https://www.lifeline.org.au/media/a.pdf",
     "https://www.lifeline.org.au/media/b.pdf"}

\* The search hits whose pages hold the PDF links: hit.get("link") and
\* hit.get("title") or "".
Hits ==
    {[link |-> "https://news/1", title |-> "News"],
     [link |-> "https://blog/2", title |-> ""]}

Queries == {"lifeline report", "lifeline media"}

\* What load_manifest gives: no entry (no file yet), or the entry an earlier
\* run wrote.
LoadedManifests ==
    {<<>>,
     [u \in {"https://www.lifeline.org.au/media/a.pdf"} |->
         [pdf_url |-> u, sources |-> "https://old/0 |  | https://news/1 ",
          source_title |-> "", first_query |-> "lifeline", first_seen_at |-> "T0",
          last_seen_at |-> "T0", downloaded_file |-> "media/a.pdf",
          notes |-> ""]]}

ManifestInit ==
    /\ NoRun
    /\ call = NoCall
    /\ result = Pending
    /\ manifest \in LoadedManifests
    /\ clock = 0

\* One call of update_manifest_entry by main, at the time at.
UpdateManifestEntry(pdf_url, source_url, source_title, query, at) ==
    /\ at <= MaxTime
    /\ call' = [fn |-> "update_manifest_entry", pdf_url |-> pdf_url,
                source_url |-> source_url, source_title |-> source_title,
                query |-> query]
    /\ result' = Returned(update_manifest_entry(manifest, pdf_url, source_url,
                              source_title, query, Stamp(at)).is_new)
    /\ manifest' = update_manifest_entry(manifest, pdf_url, source_url,
                        source_title, query, Stamp(at)).manifest
    /\ clock' = at
    /\ UNCHANGED audit_vars

ManifestNext ==
    \E pdf_url \in PdfUrls : \E hit \in Hits : \E query \in Queries :
        UpdateManifestEntry(pdf_url, hit.link, hit.title, query, clock + 1)

ManifestSpec == ManifestInit /\ [][ManifestNext]_vars

(***************************************************************************)
(* The claims.                                                             *)
(***************************************************************************)
\* C1: during one run fetch_link_status issues at most one GET per distinct
\* link URL, also when several tasks look up a URL that is not yet cached.
C1_OneGetPerUrl == \A u \in DOMAIN link_gets : link_gets[u] <= 1

\* C2: all the lookups of one link URL during a run obtain the same status.
C2_SameStatusForAll ==
    \A p \in observed : \A q \in observed : p[1] = q[1] => p[2] = q[2]

\* The issue types of a list of issues, in order.
Kinds(list) == [k \in 1..Len(list) |-> list[k].issue_type]

\* The number of issues of the tasks before task i.
RECURSIVE IssuesBefore(_)
IssuesBefore(i) ==
    IF i = 1 THEN 0 ELSE IssuesBefore(i - 1) + Len(issues_of[i - 1])

\* C3: the written report is the concatenation of the per-page issue lists in
\* input order, whatever order the tasks finished in: the k-th issue of page
\* i stands at position k after all the issues of the pages before i, and the
\* report holds nothing else.
C3_ReportInInputOrder ==
    run = "done" =>
        /\ Len(report) = IssuesBefore(Len(source_rows) + 1)
        /\ \A i \in Tasks : \A k \in 1..Len(issues_of[i]) :
               report[IssuesBefore(i) + k] = issues_of[i][k]

\* C3 witness: the second page finished before the first, both have issues,
\* and the report was written.
C3_Witness ==
    /\ run = "done"
    /\ finished = <<2, 1>>
    /\ issues_of[1] # <<>>
    /\ issues_of[2] # <<>>
    /\ issues_of[1] # issues_of[2]

\* C4: the number of tasks that have entered and not left `async with
\* semaphore` is at most the concurrency limit.
C4_AtMostConcurrencyInFlight == Cardinality(Holding) <= concurrency

\* C4 witness: every slot is taken, a task is past its page fetch, and another
\* task waits for a slot.
C4_Witness ==
    /\ Cardinality(Holding) = concurrency
    /\ \E i \in Tasks : pc[i] = "fetch_link_status"
    /\ \E i \in Tasks : pc[i] = "created"

\* C5: a failure while auditing one page (a fault raised while extracting its
\* links among them) never aborts the run.
C5_RunNeverAborted == run # "failed"

\* C6: every page reaches a terminal state and the report is produced, given
\* that every GET ends.
C6_ReportEventuallyWritten ==
    <>(run = "done" /\ \A i \in Tasks : pc[i] = "returned")

C9_CacheWriteOnce ==
    [][\A u \in DOMAIN link_cache :
           u \in DOMAIN link_cache' /\ link_cache'[u] = link_cache[u]]_vars

\* C10: every issue of the written report has a snippet of at most
\* SNIPPET_LIMIT characters.
C10_SnippetsCapped ==
    run = "done" =>
        \A k \in 1..Len(report) : Len(report[k].snippet) <= SNIPPET_LIMIT

\* The call of fn has returned.
Done(fn) == call.fn = fn /\ result # Pending

\* C11 as stated: for a text longer than SNIPPET_LIMIT trim_snippet returns
\* exactly the first SNIPPET_LIMIT - 3 characters followed by "...", a result
\* of exactly SNIPPET_LIMIT characters; a text of at most SNIPPET_LIMIT
\* characters comes back unchanged.
C11_TrimKeepsFirst197 ==
    Done("trim_snippet") =>
        IF Len(call.text) > SNIPPET_LIMIT
        THEN /\ result.value = SubSeq(call.text, 1, SNIPPET_LIMIT - 3) \o "..."
             /\ Len(result.value) = SNIPPET_LIMIT
        ELSE result.value = call.text

\* The result of trim_snippet without its last three characters.
Stem == SubSeq(result.value, 1, Len(result.value) - 3)

\* C11 amended: for a text longer than SNIPPET_LIMIT the result ends with
\* "...", and before it stands the text's first SNIPPET_LIMIT - 3 characters
\* without their trailing whitespace: a prefix of the text that does not end
\* in whitespace, followed in the text by nothing but whitespace up to
\* position SNIPPET_LIMIT - 3.  The result has at most SNIPPET_LIMIT
\* characters, and exactly that many when character SNIPPET_LIMIT - 3 is not
\* whitespace.  A text of at most SNIPPET_LIMIT characters comes back unchanged.
C11_TrimStripsBeforeEllipsis ==
    Done("trim_snippet") =>
        IF Len(call.text) > SNIPPET_LIMIT
        THEN /\ Len(result.value) >= 3
             /\ endswith(result.value, "...")
             /\ Len(result.value) <= SNIPPET_LIMIT
             /\ Stem = SubSeq(call.text, 1, Len(Stem))
             /\ Stem = "" \/ ~IsSpace(Char(Stem, Len(Stem)))
             /\ \A k \in (Len(Stem) + 1)..(SNIPPET_LIMIT - 3) :
                    IsSpace(Char(call.text, k))
             /\ ~IsSpace(Char(call.text, SNIPPET_LIMIT - 3)) =>
                    Len(result.value) = SNIPPET_LIMIT
        ELSE result.value = call.text

\* C11 witness: a text longer than SNIPPET_LIMIT with whitespace at the cut,
\* trimmed to fewer than SNIPPET_LIMIT characters.
C11_Witness ==
    /\ Done("trim_snippet")
    /\ Len(call.text) > SNIPPET_LIMIT
    /\ IsSpace(Char(call.text, SNIPPET_LIMIT - 3))
    /\ Len(result.value) < SNIPPET_LIMIT

\* The matches of the two placeholder patterns in text: the pattern and the
\* 0-based position of each.  (Neither phrase can overlap itself, so these
\* are the matches a left-to-right scan finds.)
PlaceholderMatches(text) ==
    {m \in (1..Len(PLACEHOLDER_PATTERNS)) \X (0..Len(text)) :
        MatchesAt(PLACEHOLDER_PATTERNS[m[1]], text, m[2])}

\* C12: find_placeholder_text gives min(M, MAX_PLACEHOLDER_MATCHES) issues,
\* all of type Placeholder text, where M is the number of matches of the two
\* patterns in the page's text after collapse_whitespace.
C12_PlaceholderIssuesCapped ==
    Done("find_placeholder_text") =>
        /\ Len(result.value) =
              Min(Cardinality(PlaceholderMatches(
                      collapse_whitespace(call.container.text))),
                  MAX_PLACEHOLDER_MATCHES)
        /\ \A k \in 1..Len(result.value) :
              result.value[k].issue_type = "Placeholder text"

\* C12 witness: a page whose text holds 25 matches or more, of both patterns,
\* gives MAX_PLACEHOLDER_MATCHES issues, some of each pattern.
C12_Witness ==
    /\ Done("find_placeholder_text")
    /\ Cardinality(PlaceholderMatches(collapse_whitespace(call.container.text)))
           >= 25
    /\ Len(result.value) = MAX_PLACEHOLDER_MATCHES
    /\ startswith(result.value[1].snippet, "Found \"lorem ipsum\"")
    /\ startswith(result.value[MAX_PLACEHOLDER_MATCHES].snippet,
                  "Found \"placeholder\"")

\* C13: resolve_href never raises, whatever the base URL and the href, and
\* neither does extract_page_links on a page with a malformed anchor.
C13_ResolveHrefNeverRaises ==
    Done("resolve_href") \/ Done("extract_page_links") => result # Raises

\* An href the link resolver must reject: empty or blank, or one whose
\* trimmed, lower-cased value starts with an excluded prefix.
IsExcludedHref(href) ==
    \/ href = None
    \/ strip(href) = ""
    \/ \E prefix \in {"mailto:", "tel:", "javascript:", "data:", "#"} :
           startswith(lower(strip(href)), prefix)

\* The anchors of the called container whose href is not to be rejected.
KeptAnchors ==
    {k \in 1..Len(call.container.anchors) :
        ~IsExcludedHref(call.container.anchors[k].href)}

\* C14: resolve_href rejects every empty, blank or excluded href, and
\* extract_page_links gives one link per other anchor and none for those.
C14_ExcludedHrefsRejected ==
    /\ Done("resolve_href") /\ IsExcludedHref(call.href) =>
           result = Returned(NoLink)
    /\ Done("extract_page_links") /\ result # Raises =>
           /\ Len(result.value) = Cardinality(KeptAnchors)
           /\ \A k \in 1..Len(result.value) :
                  ~IsExcludedHref(result.value[k].raw)

\* C14 witness: a container whose first anchor is a mailto: link and whose
\* second is an upper-case MAILTO: link gives no link; and one link when the
\* second anchor is a page link.
C14_Witness ==
    /\ Done("extract_page_links")
    /\ Len(call.container.anchors) = 2
    /\ call.container.anchors[1].href = "mailto:team@site"
    /\ \/ call.container.anchors[2].href = "MAILTO:team@site" /\ result = Returned(<<>>)
       \/ call.container.anchors[2].href = "/x" /\ Len(result.value) = 1

\* href without its fragment: the text before the first "#".
BeforeFragment(href) == Partition(href, "#").head

\* C15: the absolute URL of every link resolve_href and extract_page_links
\* give holds no "#", and two links of a page whose hrefs differ only in the
\* fragment have the same absolute URL.
C15_NoFragmentInAbsolute ==
    /\ Done("resolve_href") /\ result # Raises /\ result.value # NoLink =>
           Index(result.value.absolute, "#") = 0
    /\ Done("extract_page_links") /\ result # Raises =>
           \A j \in 1..Len(result.value) :
               /\ Index(result.value[j].absolute, "#") = 0
               /\ \A k \in 1..Len(result.value) :
                      BeforeFragment(result.value[j].raw)
                          = BeforeFragment(result.value[k].raw)
                      => result.value[j].absolute = result.value[k].absolute

\* C15 witness: the anchors /x#a and /x#b of one page resolve to the same
\* absolute URL.
C15_Witness ==
    /\ Done("extract_page_links")
    /\ result # Raises
    /\ Len(result.value) = 2
    /\ result.value[1].raw = "/x#a"
    /\ result.value[2].raw = "/x#b"
    /\ result.value[1].absolute = "https://site/x"
    /\ result.value[2].absolute = "https://site/x"

\* The members of a set of numbers in ascending order.
RECURSIVE Ascending(_)
Ascending(S) == IF S = {} THEN <<>> ELSE <<Least(S)>> \o Ascending(S \ {Least(S)})

\* The links of page (fetched from url) to the page's own host, each absolute
\* URL at its first occurrence only, in document order.
FirstOwnLinks ==
    [url \in PageUrls |->
        [page \in Pages \cup {NoHtml} |->
            [n \in 1..Cardinality(
                       {k \in 1..Len(ExtractedLinks[url][page].links) :
                           /\ ExtractedLinks[url][page].links[k].host = HostOf(url)
                           /\ \A j \in 1..(k - 1) :
                                  ExtractedLinks[url][page].links[j].absolute
                                      # ExtractedLinks[url][page].links[k].absolute}) |->
                ExtractedLinks[url][page].links[
                    Ascending(
                       {k \in 1..Len(ExtractedLinks[url][page].links) :
                           /\ ExtractedLinks[url][page].links[k].host = HostOf(url)
                           /\ \A j \in 1..(k - 1) :
                                  ExtractedLinks[url][page].links[j].absolute
                                      # ExtractedLinks[url][page].links[k].absolute})[n]]]]]

IsBrokenLinkIssue(issue) == issue.issue_type = "Broken link"

IsBrokenStatus(status) == status = StatusNone \/ status >= 400

\* The Broken link issue of link on the page of raw_url, for a status.
BrokenIssue(raw_url, link, status) ==
    Issue(raw_url, "Broken link",
          LinkSnippets[link][IF status = StatusNone THEN "request failed"
                             ELSE "returned HTTP " \o ToString(status)])

\* One issue for each of the links own, from the n-th on, whose status among
\* the pairs seen is unknown or 400 and more.
RECURSIVE BrokenIssuesFrom(_, _, _, _)
BrokenIssuesFrom(raw_url, own, seen_pairs, n) ==
    IF n > Len(own) THEN <<>>
    ELSE (IF \E p \in seen_pairs : p[1] = own[n].absolute /\ IsBrokenStatus(p[2])
          THEN <<BrokenIssue(raw_url, own[n],
                     (CHOOSE p \in seen_pairs : p[1] = own[n].absolute)[2])>>
          ELSE <<>>)
         \o BrokenIssuesFrom(raw_url, own, seen_pairs, n + 1)

\* What C16 says of a page with the own-host links own, whose task obtained
\* the (url, status) pairs seen_pairs and returned issues.
BrokenLinksAsClaimed(raw_url, own, seen_pairs, issues) ==
    /\ {p[1] : p \in seen_pairs} = {own[n].absolute : n \in 1..Len(own)}
    /\ Cardinality(seen_pairs) = Len(own)
    /\ SelectSeq(issues, IsBrokenLinkIssue)
           = BrokenIssuesFrom(raw_url, own, seen_pairs, 1)

\* C16: for a fetched page, each distinct absolute URL among the links to the
\* page's own host is looked up once, and the Broken link issues are, in
\* order of first occurrence, one for each of them whose status is unknown
\* or 400 and more; no other link gives one.
C16_OneBrokenLinkPerOwnUrl ==
    \A i \in Tasks :
        pc[i] = "returned" /\ page_status[i] = "OK" =>
            BrokenLinksAsClaimed(source_rows[i].raw_url,
                FirstOwnLinks[source_rows[i].absolute_url][root_of[i]],
                observed_by[i], issues_of[i])

\* C16 witness: a page with links to /x (twice, with different fragments),
\* to /b and to other hosts, where /x answered 404 and the GET of /b failed,
\* has two Broken link issues, the first for the first link to /x.
C16_Witness ==
    \E i \in Tasks :
        /\ pc[i] = "returned"
        /\ root_of[i] = BusyPage
        /\ observed_by[i] = {<<"https://site/x", 404>>, <<"https://site/b", StatusNone>>}
        /\ Len(SelectSeq(issues_of[i], IsBrokenLinkIssue)) = 2
        /\ SelectSeq(issues_of[i], IsBrokenLinkIssue)[1].snippet
               = "\"Our team\" -> /x#team (returned HTTP 404)"

\* The positions of the called links that were written absolutely and whose
\* host satisfies the called predicate.
AbsoluteHits ==
    {k \in 1..Len(call.links) :
        call.links[k].was_absolute /\ call.links[k].host \in call.hosts}

\* C17: detect_absolute_links gives, in link order, one issue of the given
\* type for each link occurrence that was written absolutely and whose host
\* satisfies the predicate, with the link's snippet, and nothing else.
C17_OneIssuePerAbsoluteHit ==
    Done("detect_absolute_links") =>
        result.value
            = [j \in 1..Cardinality(AbsoluteHits) |->
                  Issue(call.page_url, call.issue_type,
                        LinkSnippets[call.links[Ascending(AbsoluteHits)[j]]][None])]

\* C17 witness: the same absolute link to a blocked host twice gives two
\* issues; a relative link to the site's own host, which satisfies the
\* predicate, next to an absolute link that does not, gives none.
C17_Witness ==
    /\ Done("detect_absolute_links")
    /\ Len(call.links) = 2
    /\ \/ /\ call.links[1] = call.links[2]
          /\ call.hosts = BLOCKED_LIFELINE_HOSTS
          /\ Len(result.value) = 2
          /\ result.value[1].snippet = "\"<no text>\" -> //www.lifeline.org.au/help"
       \/ /\ call.hosts = {"site"}
          /\ ~call.links[1].was_absolute
          /\ call.links[1].host = "site"
          /\ call.links[2].was_absolute
          /\ result.value = <<>>

\* The place of an issue type in the order of the classifiers of a fetched
\* page; 0 for a type no classifier of a fetched page gives.
ClassifierRank(issue_type) ==
    CASE issue_type = "Missing SEO description" -> 1
      [] issue_type = "Absolute link to dev/prod domain" -> 2
      [] issue_type = "Link to lifeline.org.au" -> 3
      [] issue_type = "Broken link" -> 4
      [] issue_type = "Placeholder text" -> 5
      [] OTHER -> 0

\* C18: the issues of a successfully fetched page stand in the order of the
\* classifiers: Missing SEO description, then dev/prod links, then blocked
\* hosts, then broken links, then placeholder text (no issue has a rank
\* below that of the issue before it).
C18_IssuesInClassifierOrder ==
    \A i \in Tasks :
        pc[i] = "returned" /\ page_status[i] = "OK" =>
            /\ \A k \in 1..Len(issues_of[i]) :
                   ClassifierRank(issues_of[i][k].issue_type) > 0
            /\ \A k \in 2..Len(issues_of[i]) :
                   ClassifierRank(issues_of[i][k - 1].issue_type)
                       <= ClassifierRank(issues_of[i][k].issue_type)

\* C18 witness: a fetched page that has issues of all five classifiers.
C18_Witness ==
    \E i \in Tasks :
        /\ pc[i] = "returned"
        /\ page_status[i] = "OK"
        /\ {ClassifierRank(issues_of[i][k].issue_type) :
                k \in 1..Len(issues_of[i])} = 1..5

IsMissingDescriptionIssue(issue) == issue.issue_type = "Missing SEO description"

\* C19: the issue list a page's audit returns holds exactly one Missing SEO
\* description issue when the row has no description, and none when it has
\* one, whatever the page's fetch gave.
C19_MissingDescriptionIffBlank ==
    \A i \in Tasks :
        pc[i] = "returned" =>
            Len(SelectSeq(issues_of[i], IsMissingDescriptionIssue))
                = IF source_rows[i].seo_description \in {None, ""} THEN 1 ELSE 0

\* C19 witness: of two fetched pages that returned, the one without a
\* description has the issue and the one with a description has not.
C19_Witness ==
    \E i \in Tasks : \E j \in Tasks :
        /\ pc[i] = "returned" /\ pc[j] = "returned"
        /\ page_status[i] = "OK" /\ page_status[j] = "OK"
        /\ source_rows[i].seo_description = None
        /\ source_rows[j].seo_description = "About us"
        /\ issues_of[i][1].issue_type = "Missing SEO description"
        /\ Len(SelectSeq(issues_of[j], IsMissingDescriptionIssue)) = 0
        /\ Len(issues_of[j]) > 0

\* Task i awaits the GET of a link in the state.
Awaits(i) == pc[i] = "fetch_link_status"

\* C20: a call of fetch_link_status for a URL that has a cache entry, an
\* entry of None included, returns that entry, sends no GET and leaves the
\* cache as it is.  In a step of task i the calls that return without an
\* await are those that add a pair to observed_by[i], apart from the call
\* the task was suspended in; the call it suspends in sends a GET.
C20_CacheHitWithoutRequest ==
    [][\A i \in Tasks :
          /\ \A p \in observed_by'[i] \ observed_by[i] :
                 ~(Awaits(i) /\ p[1] = links_of[i][pos_of[i]].absolute) =>
                     /\ p[1] \in DOMAIN link_cache
                     /\ p[2] = link_cache[p[1]]
                     /\ link_cache'[p[1]] = link_cache[p[1]]
                     /\ link_gets'[p[1]] = link_gets[p[1]]
          /\ Awaits(i)' /\ <<pc[i], pos_of[i]>> # <<pc'[i], pos_of'[i]>> =>
                 links_of'[i][pos_of'[i]].absolute \notin DOMAIN link_cache'
      ]_vars

\* C20 witness: two tasks obtained None for the same link and one GET was
\* sent for it: the second task's call found the entry None in the cache.
C20_Witness ==
    \E i \in Tasks : \E j \in Tasks :
        /\ i # j
        /\ <<"https://site/x", StatusNone>> \in observed_by[i]
        /\ <<"https://site/x", StatusNone>> \in observed_by[j]
        /\ link_gets["https://site/x"] = 1
        /\ link_cache["https://site/x"] = StatusNone

\* The status the claims give a GET's outcome: the status code of any
\* response, None for a transport failure.
ReceivedStatus(outcome) ==
    IF outcome.type = "response" THEN outcome.status_code ELSE StatusNone

\* C21: on a cache miss fetch_link_status returns the status code of any
\* response received, error statuses included, and None on a transport
\* failure, stores what it returns under the URL, leaves the other entries
\* alone, and does not raise.
C21_MissStoresAndReturnsStatus ==
    Done("fetch_link_status") /\ call.url \notin DOMAIN call.cache =>
        /\ result.tag = "returned"
        /\ result.value.requested
        /\ result.value.status = ReceivedStatus(call.outcome)
        /\ DOMAIN result.value.cache = DOMAIN call.cache \cup {call.url}
        /\ result.value.cache[call.url] = ReceivedStatus(call.outcome)
        /\ \A u \in DOMAIN call.cache : result.value.cache[u] = call.cache[u]

\* C21 witness: with an entry for another URL only, the GET of /x answered
\* 503: the call returned 503 and stored it.
C21_Witness ==
    /\ Done("fetch_link_status")
    /\ call.url = "https://site/x"
    /\ DOMAIN call.cache = {"https://site/b"}
    /\ call.outcome = Response(503, NoHtml)
    /\ result.value.status = 503
    /\ result.value.cache["https://site/x"] = 503

\* The outcomes of fetch_page the claims name, as the tuples it returns.
NotFound == [page_status |-> "404", html |-> NoHtml, error |-> None]

Ok(body) == [page_status |-> "OK", html |-> body, error |-> None]

FetchError(reason) == [page_status |-> "error", html |-> NoHtml, error |-> reason]

\* C22: fetch_page returns, without raising, NotFound for status 404, Ok with
\* the body for a status in 200..299, an error with the reason "status N"
\* for any other status N, and an error with the failure's message for a
\* network or timeout failure.
C22_FetchPageClassifies ==
    Done("fetch_page") =>
        /\ result.tag = "returned"
        /\ call.outcome.type = "HTTPError" =>
               result.value = FetchError(call.outcome.message)
        /\ call.outcome.type = "response" =>
               /\ call.outcome.status_code = 404 => result.value = NotFound
               /\ call.outcome.status_code \in 200..299 =>
                      result.value = Ok(call.outcome.text)
               /\ call.outcome.status_code \notin (200..299) \cup {404} =>
                      result.value
                          = FetchError("status " \o ToString(call.outcome.status_code))

\* C22 witness: a response with status 204 gave Ok with its body.
C22_Witness ==
    /\ Done("fetch_page")
    /\ call.outcome = Response(204, BusyPage)
    /\ result.value.page_status = "OK"
    /\ result.value.html = BusyPage

\* The tasks whose page GET was sent.
Started == {i \in Tasks : pc[i] \in {"fetch_page", "fetch_link_status", "returned", "raised"}}

C23_NeverFetchedAgain ==
    /\ \A i \in Tasks :
           /\ page_gets[i] <= 1
           /\ i \in Started => page_gets[i] = 1
           /\ pc[i] = "created" => page_gets[i] = 0
           /\ outcome_of[i] # NoOutcome => page_gets[i] = 1
    /\ run = "done" =>
           /\ \A i \in Tasks : page_gets[i] = 1 /\ outcome_of[i] # NoOutcome
           /\ Len(report) = Len(Flatten([i \in Tasks |-> issues_of[i]], 1))

\* The tasks with a page GET outstanding, and those with a link GET
\* outstanding: a task awaits one client.get at a time.
PageRequests == {i \in Tasks : pc[i] = "fetch_page"}

LinkRequests == {i \in Tasks : pc[i] = "fetch_link_status"}

\* C24: the page GETs and link GETs outstanding are together at most
\* concurrency, and as many as there are slots of the semaphore taken: each
\* task holding a slot awaits exactly one GET.
C24_RequestsWithinConcurrency ==
    /\ Cardinality(PageRequests) + Cardinality(LinkRequests) <= concurrency
    /\ Cardinality(PageRequests) + Cardinality(LinkRequests)
           = concurrency - semaphore

\* C24 witness: with concurrency 2 a page GET and a link GET are outstanding
\* and no slot is free.
C24_Witness ==
    /\ concurrency = 2
    /\ semaphore = 0
    /\ Cardinality(PageRequests) = 1
    /\ Cardinality(LinkRequests) = 1

\* Every page URL gave the same outcome to every row that fetched it, and
\* every link URL the same status to every lookup.
ConsistentAnswers ==
    /\ \A i \in Tasks : \A j \in Tasks :
           source_rows[i].absolute_url = source_rows[j].absolute_url =>
               outcome_of[i] = outcome_of[j]
    /\ \A p \in observed : \A q \in observed : p[1] = q[1] => p[2] = q[2]

\* The status the link URL gave in the run.
StatusOf(url) == (CHOOSE p \in observed : p[1] = url)[2]

\* The task in the state t, alone in the run with the cache stored so far,
\* runs to its return (or its raise): each link GET it awaits gives the
\* status the URL gave in the run.
RECURSIVE SequentialLinks(_, _, _, _)
SequentialStore(row, root, t, status, stored) ==
    SequentialLinks(row, root,
        ProcessLinkStatus(row, root, t.links, t.pos, t.seen, t.issues, status,
                          stored, t.page_status),
        stored)

SequentialLinks(row, root, t, stored) ==
    IF t.pc # "fetch_link_status"
    THEN [task |-> t, cache |-> stored]
    ELSE SequentialStore(row, root, t, StatusOf(t.links[t.pos].absolute),
             CacheStore(stored, t.links[t.pos].absolute,
                        StatusOf(t.links[t.pos].absolute)))

\* process_row of row from the page's outcome to its end, alone in the run.
SequentialRow(row, outcome, stored) ==
    SequentialLinks(row, fetch_page(outcome).html,
                    ProcessFetched(row, outcome, stored), stored)

\* The report of the run with concurrency 1 on the same rows and answers:
\* the rows are processed one after the other, from row i on with the
\* cache stored so far.  A row that raises leaves a mark no report holds.
RECURSIVE SequentialReport(_, _)
SequentialRest(i, ended) ==
    IF ended.task.pc = "raised"
    THEN <<Issue(source_rows[i].raw_url, "raised", "")>>
    ELSE ended.task.issues \o SequentialReport(i + 1, ended.cache)

SequentialReport(i, stored) ==
    IF i > Len(source_rows) THEN <<>>
    ELSE SequentialRest(i, SequentialRow(source_rows[i], outcome_of[i], stored))

\* C25: when every URL gave the same answer throughout the run, the report
\* written, under any concurrency and any interleaving of the tasks, is the
\* report of the sequential run on the same rows and answers.
C25_ReportAsSequentialRun ==
    run = "done" /\ ConsistentAnswers => report = SequentialReport(1, <<>>)

\* C25 witness: under concurrency 2 both tasks looked /x up before either
\* stored it (two GETs, both answered 404), the second task returned first,
\* and the report is that of the sequential run, with a Broken link issue
\* for each page.
C25_Witness ==
    /\ run = "done"
    /\ ConsistentAnswers
    /\ concurrency = 2
    /\ finished = <<2, 1>>
    /\ "https://site/x" \in DOMAIN link_gets
    /\ link_gets["https://site/x"] = 2
    /\ <<"https://site/x", 404>> \in observed
    /\ report = SequentialReport(1, <<>>)
    /\ Len(SelectSeq(report, IsBrokenLinkIssue)) >= 2

\* The absolute URLs of the links of page (fetched from url) whose host is
\* the page's own; none when extract_page_links raised.
OwnLinkUrls ==
    [url \in PageUrls |->
        [page \in Pages \cup {NoHtml} |->
            IF ExtractedLinks[url][page].raised THEN {}
            ELSE {ExtractedLinks[url][page].links[k].absolute :
                     k \in {n \in 1..Len(ExtractedLinks[url][page].links) :
                               ExtractedLinks[url][page].links[n].host
                                   = HostOf(url)}}]]

\* The own-host link URLs of the page task i fetched successfully; none for
\* a task whose fetch has not ended, or ended in 404 or a failure.
AuditedLinkUrls(i) ==
    IF page_status[i] = "OK"
    THEN OwnLinkUrls[source_rows[i].absolute_url][root_of[i]]
    ELSE {}

\* C26: every URL fetch_link_status has requested or stored is the absolute
\* URL of an own-host link of a successfully fetched page, and a task looks
\* up the own-host links of its own page only: none for a page that ended
\* in 404 or a fetch failure.
C26_OnlyOwnHostLinksRequested ==
    /\ \A u \in DOMAIN link_gets \cup DOMAIN link_cache :
           \E i \in Tasks : u \in AuditedLinkUrls(i)
    /\ \A i \in Tasks :
           /\ {p[1] : p \in observed_by[i]} \subseteq AuditedLinkUrls(i)
           /\ pc[i] = "fetch_link_status" =>
                  links_of[i][pos_of[i]].absolute \in AuditedLinkUrls(i)

\* C26 witness: one page ended in 404, the other has links to its own host
\* and to example.com and www.lifeline.org.au: the cache holds the two
\* own-host URLs and nothing else was requested.
C26_Witness ==
    \E i \in Tasks : \E j \in Tasks :
        /\ pc[i] = "returned" /\ page_status[i] = "404"
        /\ pc[j] = "returned" /\ root_of[j] = BusyPage
        /\ \E k \in 1..Len(ExtractedLinks[source_rows[j].absolute_url][BusyPage].links) :
               ExtractedLinks[source_rows[j].absolute_url][BusyPage].links[k].host
                   = "example.com"
        /\ DOMAIN link_cache = {"https://site/x", "https://site/b"}
        /\ DOMAIN link_gets = {"https://site/x", "https://site/b"}

\* C27: the step that sends a page's GET and the step in which fetch_page
\* returns leave the link status cache as it is, whether or not the cache
\* has an entry for the page's URL, and what fetch_page returns is decided
\* by the outcome of the page's own GET.
C27_FetchPageLeavesCache ==
    [][\A i \in Tasks :
          /\ pc[i] = "created" /\ pc'[i] = "fetch_page" =>
                 /\ link_cache' = link_cache
                 /\ page_gets'[i] = page_gets[i] + 1
          /\ pc[i] = "fetch_page" /\ pc'[i] \notin {"fetch_page", "cancelled"} =>
                 /\ link_cache' = link_cache
                 /\ outcome_of'[i] # NoOutcome
                 /\ page_status'[i] = fetch_page(outcome_of'[i]).page_status
                 /\ root_of'[i] = fetch_page(outcome_of'[i]).html
      ]_vars

\* C27 witness: under concurrency 1 the first task stored 404 for its link
\* to the second page and returned; the second task then sent the page's
\* GET all the same, got the page with status 200, and the cache entry of
\* the page's URL is still 404.
C27_Witness ==
    /\ concurrency = 1
    /\ Len(source_rows) = 2
    /\ source_rows[2].absolute_url = "https://site/b"
    /\ pc[1] = "returned"
    /\ root_of[1] = BusyPage
    /\ link_gets["https://site/b"] = 1
    /\ page_gets[2] = 1
    /\ outcome_of[2] = Response(200, BusyPage)
    /\ page_status[2] = "OK"
    /\ pc[2] = "returned"
    /\ link_cache["https://site/b"] = 404

\* C28: a call of update_manifest_entry returns true exactly when the
\* manifest had no entry for its pdf_url, and every entry the manifest had
\* before the call is still there with the same first_query and
\* first_seen_at.
C28_ManifestFirstSeenKept ==
    [][/\ result'.value = (call'.pdf_url \notin DOMAIN manifest)
       /\ \A u \in DOMAIN manifest :
              /\ u \in DOMAIN manifest'
              /\ manifest'[u].first_query = manifest[u].first_query
              /\ manifest'[u].first_seen_at = manifest[u].first_seen_at
      ]_vars

\* C28 witness: the entry of b.pdf was made at time 1 for the first query
\* and seen again at time 3 in a call with the other query, which returned
\* false; its first_query and first_seen_at are those of the first call.
C28_Witness ==
    /\ call.fn = "update_manifest_entry"
    /\ call.pdf_url = "https://www.lifeline.org.au/media/b.pdf"
    /\ call.query = "lifeline media"
    /\ result = Returned(FALSE)
    /\ "https://www.lifeline.org.au/media/b.pdf" \in DOMAIN manifest
    /\ manifest["https://www.lifeline.org.au/media/b.pdf"].first_query
           = "lifeline report"
    /\ manifest["https://www.lifeline.org.au/media/b.pdf"].first_seen_at = "T1"
    /\ manifest["https://www.lifeline.org.au/media/b.pdf"].last_seen_at = "T3"

====
